---- MODULE Spec2Model ----
(***************************************************************************)
(* Model of dns_updater.py: one invocation of the script is a "run"; the   *)
(* ini file (dns_updater.ini) is the only state that survives a run.       *)
(* Strings that the code cuts up (the hosts setting) are sequences of      *)
(* one-character strings; the other settings are opaque strings.           *)
(***************************************************************************)
EXTENDS Integers, Sequences, FiniteSets, TLC

VARIABLES file, self, logger, emailSender, pc, locals, trace, exitCode, run

vars == <<file, self, logger, emailSender, pc, locals, trace, exitCode, run>>

(* ---------------------------------------------------------------------- *)
(* Bounds                                                                   *)
(* ---------------------------------------------------------------------- *)
MaxHostsLen == 3
MaxRuns == 2

(* ---------------------------------------------------------------------- *)
(* Constants of the program and the values of its environment              *)
(* ---------------------------------------------------------------------- *)
None == "None"
VERSION == "1.1"
TEMPLATE_VERSION == "1"
HTTP_CREATED == 201
HTTP_OTHER == 500

(* exit status of the process; RUNNING while it has not ended *)
RUNNING == -1
EXIT_OK == 0
EXIT_ERROR == 1

Addrs == {"1.1.1.1", "2.2.2.2"}
HostChars == {"a", "b", " ", ","}
NoHosts == <<None>>

StatusCodes == {HTTP_CREATED, HTTP_OTHER}

(* what socket.gethostbyname can do: return an address or raise *)
RESOLVE_FAILED == "gaierror"
ResolverResults == Addrs \cup {RESOLVE_FAILED}

(* what open(path, "w") followed by parser.write can do: succeed, raise   *)
(* in open (file untouched), or raise after open truncated the file       *)
WriteResults == {"ok", "open_raises", "write_raises"}

(* what requests.put can do: return a response or raise *)
PutResults ==
    {[raised |-> FALSE, status_code |-> s] : s \in StatusCodes}
        \cup {[raised |-> TRUE, status_code |-> 0]}

(* ---------------------------------------------------------------------- *)
(* str.split(",") and str.strip()                                          *)
(* ---------------------------------------------------------------------- *)
RECURSIVE lstrip(_)
lstrip(s) ==
    IF s # <<>> /\ Head(s) = " " THEN lstrip(Tail(s)) ELSE s

RECURSIVE rstrip(_)
rstrip(s) ==
    IF s # <<>> /\ s[Len(s)] = " " THEN rstrip(SubSeq(s, 1, Len(s) - 1)) ELSE s

(* str.lstrip() used where str.strip() is meant *)
strip_LeftOnly(s) == lstrip(s)

strip(s) == rstrip(lstrip(s))

(* split(s, sep): the pieces of s between the separators, in order; a     *)
(* string without separator, the empty one included, gives one piece      *)
RECURSIVE splitFrom(_, _, _)
splitFrom(s, sep, piece) ==
    IF s = <<>> THEN <<piece>>
    ELSE IF Head(s) = sep THEN <<piece>> \o splitFrom(Tail(s), sep, <<>>)
    ELSE splitFrom(Tail(s), sep, Append(piece, Head(s)))

split(s, sep) == splitFrom(s, sep, <<>>)

(* all strings over HostChars of length at most n *)
RECURSIVE StringsUpTo(_)
StringsUpTo(n) ==
    IF n = 0 THEN {<<>>}
    ELSE LET shorter == StringsUpTo(n - 1)
         IN shorter \cup {Append(s, c) : s \in {t \in shorter : Len(t) = n - 1},
                                         c \in HostChars}

HostsValues == StringsUpTo(MaxHostsLen)

(* ---------------------------------------------------------------------- *)
(* The ini file                                                            *)
(* ---------------------------------------------------------------------- *)
(* the characters of a value of the ip option *)
UNPARSED == "unparsed"
Text(v) ==
    IF v = "1.1.1.1" THEN <<"1", ".", "1", ".", "1", ".", "1">>
    ELSE IF v = "2.2.2.2" THEN <<"2", ".", "2", ".", "2", ".", "2">>
    ELSE <<>>

(* the value whose characters are t; UNPARSED when t is none of them *)
FromText(t) ==
    IF \E v \in Addrs \cup {""} : Text(v) = t
    THEN CHOOSE v \in Addrs \cup {""} : Text(v) = t
    ELSE UNPARSED

(* RawConfigParser.write: the line "key = value" *)
iniLine(key, value) == key \o <<" ", "=", " ">> \o value

RECURSIVE afterDelimiter(_)
afterDelimiter(line) ==
    IF line = <<>> THEN <<>>
    ELSE IF Head(line) = "=" THEN Tail(line)
    ELSE afterDelimiter(Tail(line))

(* reading the line without stripping the value *)
iniValue_NoStrip(line) == afterDelimiter(line)

(* RawConfigParser._read: the value is what follows the delimiter,        *)
(* stripped                                                               *)
iniValue(line) == strip(afterDelimiter(line))

(* what parser.get(GENERAL_SECTION, "ip") returns from a file in which    *)
(* parser.set and parser.write have put the address ip                    *)
storedIp(ip) == FromText(iniValue(iniLine(<<"i", "p">>, Text(ip))))

DDNS_HOSTNAME == "home.dyndns.example"
API_KEY == "secret"
RECORD_URL == <<"https://api.gandi.net/v5/livedns/domains/", "{host}", "/records/%40/A">>
NoUrl == <<None>>
LOG_FILE == "dns_updater.log"
SUBJECT == "[DNSUpdater] IP address changed"
SMTP_HOST == "smtp.example"

(* no file on disk *)
NoFile ==
    [exists |-> FALSE, version |-> None, ip |-> None, ddnsHostname |-> None,
     apikey |-> None, livednsRecordUrl |-> NoUrl, hosts |-> NoHosts,
     logFile |-> None, emailChangeResultSubject |-> None,
     smtpServerHost |-> None]

(* a file that open(path, "w") emptied before the write raised *)
TruncatedFile == [NoFile EXCEPT !.exists = TRUE]

(* the file Base.__createConfigTemplateIfDoesntExist writes: the keys it  *)
(* writes behind a # are absent for the parser                            *)
TemplateFile ==
    [exists |-> TRUE, version |-> TEMPLATE_VERSION, ip |-> "",
     ddnsHostname |-> None, apikey |-> None, livednsRecordUrl |-> RECORD_URL,
     hosts |-> NoHosts, logFile |-> LOG_FILE,
     emailChangeResultSubject |-> SUBJECT, smtpServerHost |-> None]

(* the files an operator can have left on disk before a run *)
OperatorFiles ==
    [exists : {TRUE},
     version : {VERSION, TEMPLATE_VERSION, None},
     ip : Addrs \cup {"", None},
     ddnsHostname : {DDNS_HOSTNAME, None},
     apikey : {API_KEY, None},
     livednsRecordUrl : {RECORD_URL, NoUrl},
     hosts : HostsValues \cup {NoHosts},
     logFile : {LOG_FILE, None},
     emailChangeResultSubject : {SUBJECT, None},
     smtpServerHost : {SMTP_HOST, None}]

(* ---------------------------------------------------------------------- *)
(* State of one run                                                        *)
(* ---------------------------------------------------------------------- *)
NewSelf ==
    [version |-> None, ip |-> None, apikey |-> None, ddnsHostname |-> None,
     liveDNSRecordUrl |-> NoUrl, hosts |-> NoHosts]

NewLogger == [instance |-> "none", console |-> <<>>, history |-> <<>>]

NewEmailSender ==
    [created |-> FALSE, emailChangeResultSubject |-> None,
     smtpServerHost |-> None]

NewLocals ==
    [previous_ip_address |-> None, current_ip_address |-> None,
     hosts |-> <<>>, i |-> 1]

(* what the run has done to the world so far *)
NewTrace ==
    [resolverCalls |-> <<>>, writes |-> <<>>, updateCalls |-> <<>>,
     responses |-> <<>>, notifications |-> 0, mails |-> 0,
     writeErrors |-> 0, templateCreated |-> FALSE, changeDetected |-> FALSE]

Init ==
    /\ file \in OperatorFiles \cup {NoFile}
    /\ self = NewSelf
    /\ logger = NewLogger
    /\ emailSender = NewEmailSender
    /\ pc = "start"
    /\ locals = NewLocals
    /\ trace = NewTrace
    /\ exitCode = RUNNING
    /\ run = [no |-> 1, fileAtStart |-> file, lastWrite |-> None,
              failedBefore |-> FALSE, afterSetup |-> FALSE]

(* ---------------------------------------------------------------------- *)
(* Logger                                                                  *)
(* ---------------------------------------------------------------------- *)
(* Logger.getInstance / Logger.__init__: a handler is installed only when *)
(* logFile is set; otherwise __loggingLogger keeps its class value None   *)
getInstance(lg, f) ==
    IF lg.instance # "none" THEN lg.instance
    ELSE IF f.logFile # None THEN "handler" ELSE "basicConfig"

(* Logger.info / Logger.error: the console line is written, then          *)
(* self.__loggingLogger.<level>(message) is called, which raises          *)
(* AttributeError on None, then the line is added to the history          *)
LoggingRaises(instance) == instance = "basicConfig"

Log(lg, f, msg) ==
    LET inst == getInstance(lg, f)
    IN  [instance |-> inst,
         console |-> Append(lg.console, msg),
         history |-> IF LoggingRaises(inst) THEN lg.history
                     ELSE Append(lg.history, msg)]

Msg(level, text, host) == [level |-> level, text |-> text, host |-> host]

(* ---------------------------------------------------------------------- *)
(* DNSUpdater helpers                                                      *)
(* ---------------------------------------------------------------------- *)
(* __checkConfig without the test of hosts (lines 217-219) *)
MissingSetting_NoHostsTest(slf) ==
    IF slf.apikey = None THEN "apikey"
    ELSE IF slf.ddnsHostname = None THEN "ddnsHostname"
    ELSE IF slf.liveDNSRecordUrl = NoUrl THEN "liveDNSRecordUrl"
    ELSE None

(* DNSUpdater.__checkConfig, lines 208-219: the first mandatory setting   *)
(* that is None, in the order the code tests them                         *)
MissingSetting(slf) ==
    IF slf.apikey = None THEN "apikey"
    ELSE IF slf.ddnsHostname = None THEN "ddnsHostname"
    ELSE IF slf.liveDNSRecordUrl = NoUrl THEN "liveDNSRecordUrl"
    ELSE IF slf.hosts = NoHosts THEN "hosts"
    ELSE None

(* the test of lines 220 and 229 *)
IsBlank(ip) == ip = None \/ ip = ""

(* DNSUpdater.__getCurrentIpAddress with the resolver answering r *)
getCurrentIpAddress(tr, r) ==
    [trace |-> [tr EXCEPT !.resolverCalls = Append(@, r)],
     raised |-> r = RESOLVE_FAILED,
     ip_address |-> r]

(* DNSUpdater.__saveCurrentIPAddress: resolves again (answer r), keeps    *)
(* the answer in self.__ip and rewrites the whole file (outcome w)        *)
saveCurrentIPAddress(f, slf, tr, r, w) ==
    LET res == getCurrentIpAddress(tr, r)
        ip == res.ip_address
    IN  IF res.raised
        THEN [file |-> f, self |-> slf, trace |-> res.trace, raised |-> TRUE]
        ELSE IF w = "open_raises"
        THEN [file |-> f, self |-> [slf EXCEPT !.ip = ip],
              trace |-> [res.trace EXCEPT !.writeErrors = @ + 1],
              raised |-> TRUE]
        ELSE IF w = "write_raises"
        THEN [file |-> TruncatedFile, self |-> [slf EXCEPT !.ip = ip],
              trace |-> [res.trace EXCEPT !.writeErrors = @ + 1],
              raised |-> TRUE]
        ELSE [file |-> [f EXCEPT !.ip = storedIp(ip)],
              self |-> [slf EXCEPT !.ip = ip],
              trace |-> [res.trace EXCEPT !.writes = Append(@, ip)],
              raised |-> FALSE]

(* line 154 with the comparison inverted *)
AddressChanged_Inverted(previous_ip_address, current_ip_address) ==
    previous_ip_address = current_ip_address

(* line 154 *)
AddressChanged(previous_ip_address, current_ip_address) ==
    previous_ip_address # current_ip_address

(* line 157-159: the hosts the loop visits, in order *)
HostList(hosts) ==
    LET pieces == split(hosts, ",")
    IN  [k \in 1..Len(pieces) |-> strip(pieces[k])]

(* line 170: url.replace("{host}", host) on the template's pieces *)
RECURSIVE replaceHost(_, _)
replaceHost(url, host) ==
    IF url = <<>> THEN <<>>
    ELSE (IF Head(url) = "{host}" THEN host ELSE <<Head(url)>>)
            \o replaceHost(Tail(url), host)

(* line 174 accepting every 2xx-5xx answer of the provider *)
IsSuccess_AnyStatus(status_code) == status_code >= 200

(* line 174 *)
IsSuccess(status_code) == status_code = HTTP_CREATED

(* ---------------------------------------------------------------------- *)
(* The run, step by step                                                   *)
(* ---------------------------------------------------------------------- *)
(* sys.exit(code), an uncaught exception (code 1) or the end of the script *)
Exit(code) ==
    /\ pc' = "done"
    /\ exitCode' = code

(* __createConfigTemplateIfDoesntExist without the sys.exit(1) of line 91 *)
CreateConfigTemplate_NoExit ==
    /\ pc = "start"
    /\ file' = IF file.exists THEN file ELSE TemplateFile
    /\ trace' = [trace EXCEPT !.templateCreated = ~file.exists]
    /\ pc' = "readConfig"
    /\ UNCHANGED <<self, logger, emailSender, locals, exitCode, run>>

(* Base.__init__ -> __createConfigTemplateIfDoesntExist *)
CreateConfigTemplateIfDoesntExist ==
    /\ pc = "start"
    /\ IF ~file.exists
       THEN /\ file' = TemplateFile
            /\ trace' = [trace EXCEPT !.templateCreated = TRUE]
            /\ logger' = [logger EXCEPT !.console =
                             Append(@, Msg("STDERR", "Creating a template file", <<>>))]
            /\ Exit(EXIT_ERROR)
       ELSE /\ pc' = "readConfig"
            /\ UNCHANGED <<file, trace, logger, exitCode>>
    /\ UNCHANGED <<self, emailSender, locals, run>>

(* DNSUpdater.__readConfig without the version test of lines 186-189 *)
ReadConfig_NoVersionTest ==
    /\ pc = "readConfig"
    /\ self' = [version |-> file.version, ip |-> file.ip,
                 apikey |-> file.apikey,
                 ddnsHostname |-> file.ddnsHostname,
                 liveDNSRecordUrl |-> file.livednsRecordUrl,
                 hosts |-> file.hosts]
    /\ pc' = "checkConfig"
    /\ UNCHANGED <<file, logger, emailSender, locals, trace, exitCode, run>>

(* DNSUpdater.__readConfig; on a version mismatch the first use of the    *)
(* logger runs Logger.__readConfig, which writes to stderr and exits      *)
ReadConfig ==
    /\ pc = "readConfig"
    /\ IF file.version # VERSION
       THEN /\ logger' = [logger EXCEPT !.console =
                             Append(@, Msg("STDERR", "version mismatch", <<>>))]
            /\ self' = [self EXCEPT !.version = file.version]
            /\ Exit(EXIT_ERROR)
       ELSE /\ self' = [version |-> file.version, ip |-> file.ip,
                        apikey |-> file.apikey,
                        ddnsHostname |-> file.ddnsHostname,
                        liveDNSRecordUrl |-> file.livednsRecordUrl,
                        hosts |-> file.hosts]
            /\ pc' = "checkConfig"
            /\ UNCHANGED <<logger, exitCode>>
    /\ UNCHANGED <<file, emailSender, locals, trace, run>>

(* DNSUpdater.__checkConfig *)
CheckConfig ==
    /\ pc = "checkConfig"
    /\ IF MissingSetting(self) # None
       THEN /\ logger' = Log(logger, file,
                             Msg("ERROR", "Empty setting", <<MissingSetting(self)>>))
            /\ Exit(EXIT_ERROR)
            /\ UNCHANGED <<file, self, trace>>
       ELSE IF IsBlank(self.ip)
       THEN \E r \in ResolverResults, w \in WriteResults :
               LET res == saveCurrentIPAddress(file, self, trace, r, w)
               IN  /\ file' = res.file
                   /\ self' = res.self
                   /\ trace' = res.trace
                   /\ IF res.raised
                      THEN Exit(EXIT_ERROR)
                      ELSE pc' = "emailSender" /\ UNCHANGED exitCode
                   /\ UNCHANGED logger
       ELSE /\ pc' = "emailSender"
            /\ UNCHANGED <<file, self, trace, logger, exitCode>>
    /\ UNCHANGED <<emailSender, locals, run>>

(* EmailSender.__init__ -> EmailSender.__readConfig *)
CreateEmailSender ==
    /\ pc = "emailSender"
    /\ emailSender' =
          [created |-> TRUE,
           emailChangeResultSubject |-> file.emailChangeResultSubject,
           smtpServerHost |-> file.smtpServerHost]
    /\ pc' = "getPrevious"
    /\ UNCHANGED <<file, self, logger, locals, trace, exitCode, run>>

(* updateARecords, line 151: __getPreviousIPAddress reads the file again; *)
(* a blank ip makes it save the current address and return self.__ip      *)
GetPreviousIPAddress ==
    /\ pc = "getPrevious"
    /\ IF IsBlank(file.ip)
       THEN \E r \in ResolverResults, w \in WriteResults :
               LET res == saveCurrentIPAddress(file, self, trace, r, w)
               IN  /\ file' = res.file
                   /\ self' = res.self
                   /\ trace' = res.trace
                   /\ locals' = [locals EXCEPT !.previous_ip_address = res.self.ip]
                   /\ IF res.raised
                      THEN Exit(EXIT_ERROR)
                      ELSE pc' = "getCurrent" /\ UNCHANGED exitCode
       ELSE /\ locals' = [locals EXCEPT !.previous_ip_address = file.ip]
            /\ pc' = "getCurrent"
            /\ UNCHANGED <<file, self, trace, exitCode>>
    /\ UNCHANGED <<logger, emailSender, run>>

(* updateARecords, line 152 *)
GetCurrentIpAddress ==
    /\ pc = "getCurrent"
    /\ \E r \in ResolverResults :
          LET res == getCurrentIpAddress(trace, r)
          IN  /\ trace' = res.trace
              /\ IF res.raised
                 THEN Exit(EXIT_ERROR) /\ UNCHANGED locals
                 ELSE /\ locals' = [locals EXCEPT !.current_ip_address = res.ip_address]
                      /\ pc' = "compare"
                      /\ UNCHANGED exitCode
    /\ UNCHANGED <<file, self, logger, emailSender, run>>

(* updateARecords, lines 153-155 and 162-163, then the end of the script  *)
(* for an unchanged address                                               *)
CompareAddresses ==
    /\ pc = "compare"
    /\ LET lg1 == Log(logger, file, Msg("INFO", "Current IP address", <<>>))
           changed == AddressChanged(locals.previous_ip_address,
                                     locals.current_ip_address)
       IN  IF LoggingRaises(lg1.instance)
           THEN /\ logger' = lg1
                /\ Exit(EXIT_ERROR)
                /\ UNCHANGED trace
           ELSE IF changed
           THEN /\ logger' = Log(lg1, file, Msg("INFO", "Previous IP address", <<>>))
                /\ trace' = [trace EXCEPT !.changeDetected = TRUE]
                /\ pc' = "save"
                /\ UNCHANGED exitCode
           ELSE /\ logger' = Log(lg1, file, Msg("INFO", "The IP address didn't change", <<>>))
                /\ Exit(EXIT_OK)
                /\ UNCHANGED trace
    /\ UNCHANGED <<file, self, emailSender, locals, run>>

(* updateARecords, lines 156-157 *)
SaveCurrentIPAddress ==
    /\ pc = "save"
    /\ \E r \in ResolverResults, w \in WriteResults :
          LET res == saveCurrentIPAddress(file, self, trace, r, w)
          IN  /\ file' = res.file
              /\ self' = res.self
              /\ trace' = res.trace
              /\ IF res.raised
                 THEN Exit(EXIT_ERROR) /\ UNCHANGED locals
                 ELSE /\ locals' = [locals EXCEPT !.hosts = HostList(self.hosts),
                                                  !.i = 1]
                      /\ pc' = "update"
                      /\ UNCHANGED exitCode
    /\ UNCHANGED <<logger, emailSender, run>>

(* one turn of the loop of lines 158-159: __updateARecord for the host at *)
(* position i, requests.put returning or raising as res says              *)
UpdateARecord ==
    /\ pc = "update"
    /\ \E res \in PutResults :
          LET host == locals.hosts[locals.i]
              call == [host |-> host,
                       url |-> replaceHost(self.liveDNSRecordUrl, host),
                       ip |-> locals.current_ip_address,
                       apikey |-> self.apikey,
                       fileIp |-> file.ip,
                       writesBefore |-> Len(trace.writes)]
              tr == [trace EXCEPT !.updateCalls = Append(@, call),
                                  !.responses = Append(@, res)]
              lg == IF IsSuccess(res.status_code)
                    THEN Log(logger, file, Msg("INFO", "IP address updated", host))
                    ELSE Log(logger, file, Msg("ERROR", "Can't update the IP address", host))
          IN  /\ trace' = tr
              /\ IF res.raised
                 THEN Exit(EXIT_ERROR) /\ UNCHANGED <<logger, locals>>
                 ELSE /\ logger' = lg
                      /\ IF LoggingRaises(lg.instance)
                         THEN Exit(EXIT_ERROR) /\ UNCHANGED locals
                         ELSE /\ locals' = [locals EXCEPT !.i = @ + 1]
                              /\ pc' = IF locals.i < Len(locals.hosts)
                                       THEN "update" ELSE "summary"
                              /\ UNCHANGED exitCode
    /\ UNCHANGED <<file, self, emailSender, run>>

(* lines 160-161 indented into the loop body: the summary and the mail    *)
(* follow the first host                                                  *)
SendChangeResult_InLoop ==
    /\ pc \in {"update", "summary"}
    /\ trace.updateCalls # <<>>
    /\ logger' = Log(logger, file, Msg("INFO", "IP address updated on Gandi", <<>>))
    /\ trace' = [trace EXCEPT !.notifications = @ + 1]
    /\ pc' = IF pc = "update" THEN "update" ELSE "done"
    /\ exitCode' = IF pc = "update" THEN exitCode ELSE EXIT_OK
    /\ UNCHANGED <<file, self, emailSender, locals, run>>

(* updateARecords, lines 160-161, then the end of the script:             *)
(* sendChangeResult builds the mail when a subject is set, and send posts *)
(* it when the SMTP settings are set                                      *)
SendChangeResult ==
    /\ pc = "summary"
    /\ logger' = Log(logger, file, Msg("INFO", "IP address updated on Gandi", <<>>))
    /\ trace' = [trace EXCEPT
                    !.notifications = @ + 1,
                    !.mails = IF /\ emailSender.emailChangeResultSubject # None
                                 /\ emailSender.smtpServerHost # None
                              THEN @ + 1 ELSE @]
    /\ Exit(EXIT_OK)
    /\ UNCHANGED <<file, self, emailSender, locals, run>>

(* some host of this run was not updated: a status other than 201 or a   *)
(* call that raised                                                       *)
SomeHostFailed ==
    \E k \in DOMAIN trace.responses :
        trace.responses[k].raised \/ ~IsSuccess(trace.responses[k].status_code)

(* the address the last completed write of this or an earlier run put in  *)
(* the file, None when there is none or a later write destroyed it        *)
LastWrite ==
    IF file = TruncatedFile THEN None
    ELSE IF trace.writes # <<>> THEN trace.writes[Len(trace.writes)]
    ELSE run.lastWrite

(* the scheduler starts the script again: a new process, the same file    *)
NextRun ==
    /\ pc = "done"
    /\ run.no < MaxRuns
    /\ pc' = "start"
    /\ self' = NewSelf
    /\ logger' = NewLogger
    /\ emailSender' = NewEmailSender
    /\ locals' = NewLocals
    /\ trace' = NewTrace
    /\ exitCode' = RUNNING
    /\ run' = [run EXCEPT !.no = @ + 1, !.fileAtStart = file,
                           !.lastWrite = LastWrite,
                           !.failedBefore = @ \/ SomeHostFailed]
    /\ UNCHANGED file

(* the operator follows the message of line 90: in the template the run  *)
(* has just written, the three keys left behind a # (ddnsHostname,        *)
(* apikey, hosts) get a value and nothing else is touched                 *)
FillInTemplate ==
    /\ pc = "done"
    /\ trace.templateCreated
    /\ file = TemplateFile
    /\ run.no < MaxRuns
    /\ \E h \in HostsValues :
          file' = [file EXCEPT !.ddnsHostname = DDNS_HOSTNAME,
                               !.apikey = API_KEY,
                               !.hosts = h]
    /\ run' = [run EXCEPT !.afterSetup = TRUE, !.lastWrite = None]
    /\ UNCHANGED <<self, logger, emailSender, pc, locals, trace, exitCode>>

Next ==
    \/ CreateConfigTemplateIfDoesntExist
    \/ ReadConfig
    \/ CheckConfig
    \/ CreateEmailSender
    \/ GetPreviousIPAddress
    \/ GetCurrentIpAddress
    \/ CompareAddresses
    \/ SaveCurrentIPAddress
    \/ UpdateARecord
    \/ SendChangeResult
    \/ NextRun
    \/ FillInTemplate

Spec == Init /\ [][Next]_vars

TypeOK ==
    /\ pc \in {"start", "readConfig", "checkConfig", "emailSender", "getPrevious",
               "getCurrent", "compare", "save", "update", "summary", "done"}
    /\ exitCode \in {RUNNING, EXIT_OK, EXIT_ERROR}
    /\ (pc = "done") = (exitCode # RUNNING)
    /\ run.no \in 1..MaxRuns

(* ---------------------------------------------------------------------- *)
(* Vocabulary of the properties                                            *)
(* ---------------------------------------------------------------------- *)
StartFile == run.fileAtStart
StartIp == run.fileAtStart.ip

(* the file of the run has every mandatory key and the expected version *)
HasMandatoryKeys(f) ==
    /\ f.apikey # None
    /\ f.ddnsHostname # None
    /\ f.livednsRecordUrl # NoUrl
    /\ f.hosts # NoHosts

ValidConfig(f) == f.exists /\ f.version = VERSION /\ HasMandatoryKeys(f)

(* nothing outside the program failed in this run so far *)
NoResolverFailure == \A k \in DOMAIN trace.resolverCalls :
                        trace.resolverCalls[k] # RESOLVE_FAILED
NoTransportFailure == \A k \in DOMAIN trace.responses : ~trace.responses[k].raised
NoEnvironmentFailure ==
    NoResolverFailure /\ NoTransportFailure /\ trace.writeErrors = 0

(* the configured host list, read off the hosts value by position: the    *)
(* k-th entry lies between the (k-1)-th and the k-th comma, without the   *)
(* blanks around it                                                       *)
Commas(s) == {p \in 1..Len(s) : s[p] = ","}
NumEntries(s) == Cardinality(Commas(s)) + 1
CommaAt(s, k) ==
    IF k = 0 THEN 0
    ELSE IF k > Cardinality(Commas(s)) THEN Len(s) + 1
    ELSE CHOOSE p \in Commas(s) : Cardinality({q \in Commas(s) : q <= p}) = k
Entry(s, k) ==
    LET lo == CommaAt(s, k - 1) + 1
        hi == CommaAt(s, k) - 1
        inked == {p \in lo..hi : s[p] # " "}
    IN  IF inked = {} THEN <<>>
        ELSE LET first == CHOOSE p \in inked : \A q \in inked : p <= q
                 last == CHOOSE p \in inked : \A q \in inked : q <= p
             IN  SubSeq(s, first, last)

(* ---------------------------------------------------------------------- *)
(* C1: a run that starts with a non-blank persisted address and whose     *)
(* resolver answers that same address makes no Record Updater call and    *)
(* writes nothing: the file stays what it was at the start of the run     *)
(* ---------------------------------------------------------------------- *)
C1_UnchangedRunEffectFree ==
    (/\ StartFile.exists
     /\ ~IsBlank(StartIp)
     /\ \A k \in DOMAIN trace.resolverCalls : trace.resolverCalls[k] = StartIp)
    => /\ trace.updateCalls = <<>>
       /\ trace.writes = <<>>
       /\ trace.notifications = 0
       /\ file = StartFile

C1_Witness ==
    /\ pc = "done"
    /\ exitCode = EXIT_OK
    /\ ~IsBlank(StartIp)
    /\ trace.resolverCalls = <<StartIp>>
    /\ locals.previous_ip_address = locals.current_ip_address

(* ---------------------------------------------------------------------- *)
(* C2: a run that starts with an absent or blank persisted address and    *)
(* valid mandatory configuration makes no Record Updater call, whatever   *)
(* the resolver answers                                                   *)
(* ---------------------------------------------------------------------- *)
C2_BootstrapNeverPropagates ==
    (ValidConfig(StartFile) /\ IsBlank(StartIp)) => trace.updateCalls = <<>>

(* ---------------------------------------------------------------------- *)
(* C3: a run that starts with an absent or blank persisted address calls  *)
(* the resolver exactly once, and what it writes is that call's result    *)
(* ---------------------------------------------------------------------- *)
C3_SingleResolutionBootstrap ==
    (ValidConfig(StartFile) /\ IsBlank(StartIp))
    => /\ Len(trace.resolverCalls) <= 1
       /\ (pc = "done" /\ exitCode = EXIT_OK)
             => /\ Len(trace.resolverCalls) = 1
                /\ trace.writes = <<trace.resolverCalls[1]>>

(* ---------------------------------------------------------------------- *)
(* C4: every Record Updater call comes after a completed write, in the    *)
(* same run, of the new address (the one the call carries), and is never  *)
(* issued while the file still holds the previous address of the run      *)
(* ---------------------------------------------------------------------- *)
C4_PersistBeforePropagate ==
    \A k \in DOMAIN trace.updateCalls :
        LET call == trace.updateCalls[k]
        IN  /\ call.writesBefore >= 1
            /\ trace.writes[call.writesBefore] = call.ip
            /\ call.fileIp # locals.previous_ip_address

(* ---------------------------------------------------------------------- *)
(* C5: in a run that found the previous address different from the        *)
(* resolved one and ended without fatal error, the Record Updater calls   *)
(* are the configured hosts (split at the commas, blanks trimmed), in the *)
(* configured order, one call each, all with the address the run resolved *)
(* and compared                                                           *)
(* ---------------------------------------------------------------------- *)
C5_OrderedOneCallPerHost ==
    (/\ pc = "done"
     /\ exitCode = EXIT_OK
     /\ locals.previous_ip_address # locals.current_ip_address)
    => LET n == Len(trace.resolverCalls)
       IN  /\ Len(trace.updateCalls) = NumEntries(StartFile.hosts)
           /\ n >= 2
           /\ trace.resolverCalls[n - 1] = locals.current_ip_address
           /\ \A k \in DOMAIN trace.updateCalls :
                 /\ trace.updateCalls[k].host = Entry(StartFile.hosts, k)
                 /\ trace.updateCalls[k].ip = trace.resolverCalls[n - 1]

C5_Witness ==
    /\ pc = "done"
    /\ exitCode = EXIT_OK
    /\ StartFile.hosts = <<" ", "b", ",">>
    /\ Len(trace.updateCalls) = 2
    /\ trace.updateCalls[1].host = <<"b">>
    /\ trace.updateCalls[2].host = <<>>
    /\ trace.updateCalls[1].ip = "2.2.2.2"

(* the per-host lines of the run's record (console and log history agree   *)
(* on them whenever a log handler exists), in the order they were written *)
IsHostLine(m) == m.text \in {"IP address updated", "Can't update the IP address"}
HostLines == SelectSeq(logger.console, IsHostLine)
SomeStatusFailure ==
    \E k \in DOMAIN trace.responses :
        ~trace.responses[k].raised /\ trace.responses[k].status_code # HTTP_CREATED

C7_TransportFailureIsolated ==
    \A k \in DOMAIN trace.responses :
        trace.responses[k].raised
        => /\ exitCode # EXIT_ERROR
           /\ Len(HostLines) >= k
           /\ HostLines[k].host = trace.updateCalls[k].host
           /\ HostLines[k].level = "ERROR"
           /\ pc = "done" => Len(trace.updateCalls) = NumEntries(StartFile.hosts)

(* ---------------------------------------------------------------------- *)
(* C8: a run whose file lacks one of the mandatory keys (apikey,          *)
(* ddnsHostname, livednsRecordUrl, hosts) never gets past the check of    *)
(* the configuration: no resolver call, no Record Updater call, no write  *)
(* to the file, also when the persisted address is blank, and it ends     *)
(* with a non-zero exit code                                              *)
(* ---------------------------------------------------------------------- *)
C8_MissingMandatoryFieldIsFatal ==
    (StartFile.exists /\ ~HasMandatoryKeys(StartFile))
    => /\ trace.resolverCalls = <<>>
       /\ trace.updateCalls = <<>>
       /\ trace.writes = <<>>
       /\ trace.writeErrors = 0
       /\ file = StartFile
       /\ pc \in {"start", "readConfig", "checkConfig", "done"}
       /\ pc = "done" => exitCode = EXIT_ERROR

C8_Witness ==
    /\ pc = "done"
    /\ exitCode = EXIT_ERROR
    /\ StartFile.version = VERSION
    /\ StartFile.apikey # None
    /\ StartFile.ddnsHostname # None
    /\ StartFile.livednsRecordUrl # NoUrl
    /\ StartFile.hosts = NoHosts
    /\ IsBlank(StartIp)
    /\ \E j \in DOMAIN logger.console :
          logger.console[j] = Msg("ERROR", "Empty setting", <<"hosts">>)

(* ---------------------------------------------------------------------- *)
(* C9: a run started without the ini file writes the template and ends    *)
(* with a non-zero exit code; it makes no resolver call, no Record        *)
(* Updater call and no notification, and never reaches the steps that     *)
(* read, compare or propagate                                             *)
(* ---------------------------------------------------------------------- *)
C9_TemplateGenerationIsTerminal ==
    ~StartFile.exists
    => /\ pc \in {"start", "done"}
       /\ trace.resolverCalls = <<>>
       /\ trace.updateCalls = <<>>
       /\ trace.notifications = 0
       /\ trace.writes = <<>>
       /\ pc = "done" => /\ exitCode = EXIT_ERROR
                         /\ trace.templateCreated
                         /\ (~run.afterSetup => file = TemplateFile)

C9_Witness ==
    /\ pc = "done"
    /\ ~StartFile.exists
    /\ trace.templateCreated
    /\ file = TemplateFile
    /\ exitCode = EXIT_ERROR

(* ---------------------------------------------------------------------- *)
(* C10: a run whose file has every mandatory key but no logFile does what *)
(* the same run with a logFile does: unless the resolver, the write or    *)
(* the transport fails, it ends with exit code 0, unchanged or changed,   *)
(* and a changed run has persisted the address and called every host      *)
(* ---------------------------------------------------------------------- *)
C10_LoggingIsOptional ==
    (/\ pc = "done"
     /\ ValidConfig(StartFile)
     /\ StartFile.logFile = None
     /\ NoEnvironmentFailure)
    => /\ exitCode = EXIT_OK
       /\ (locals.previous_ip_address # locals.current_ip_address)
             => /\ trace.writes # <<>>
                /\ Len(trace.updateCalls) = NumEntries(StartFile.hosts)

(* the same statement for the runs that do have a logFile *)
C10_HoldsWithLogFile ==
    (/\ pc = "done"
     /\ ValidConfig(StartFile)
     /\ StartFile.logFile # None
     /\ NoEnvironmentFailure)
    => /\ exitCode = EXIT_OK
       /\ (locals.previous_ip_address # locals.current_ip_address)
             => /\ trace.writes # <<>>
                /\ Len(trace.updateCalls) = NumEntries(StartFile.hosts)

(* ---------------------------------------------------------------------- *)
(* C11: once a step has persisted the address A, the next load of the     *)
(* previous address, in the same run or in the following one and with no  *)
(* write in between, returns exactly A                                    *)
(* ---------------------------------------------------------------------- *)
C11_PersistedAddressRoundTrip ==
    (pc = "getCurrent" /\ LastWrite # None)
    => locals.previous_ip_address = LastWrite

C11_Witness ==
    /\ pc = "getCurrent"
    /\ run.no = 2
    /\ trace.writes = <<>>
    /\ run.lastWrite = "2.2.2.2"
    /\ locals.previous_ip_address = "2.2.2.2"

(* ---------------------------------------------------------------------- *)
(* C12: at the end of a run that detected a change and did not abort, the *)
(* persisted address is the resolved address that was compared with the   *)
(* previous one and that every Record Updater call of the run carried,    *)
(* however the resolver answers its calls                                 *)
(* ---------------------------------------------------------------------- *)
C12_PersistedEqualsPropagated ==
    (/\ pc = "done"
     /\ exitCode = EXIT_OK
     /\ locals.previous_ip_address # locals.current_ip_address)
    => /\ file.ip = locals.current_ip_address
       /\ \A k \in DOMAIN trace.updateCalls : trace.updateCalls[k].ip = file.ip

(* ---------------------------------------------------------------------- *)
(* C13: a run overwrites the persisted address at most once, and does so  *)
(* before its first Record Updater call, also when it starts with a blank *)
(* persisted address                                                      *)
(* ---------------------------------------------------------------------- *)
C13_AtMostOneWritePerRun ==
    /\ Len(trace.writes) <= 1
    /\ \A k \in DOMAIN trace.updateCalls :
          trace.updateCalls[k].writesBefore = 1

(* ---------------------------------------------------------------------- *)
(* C14: when a resolver call or the write of the file fails, the run ends *)
(* with a non-zero exit code, no Record Updater call and no notification  *)
(* is made, and the persisted address is still what it was before the     *)
(* failing step                                                           *)
(* ---------------------------------------------------------------------- *)
PersistedBeforeFailure ==
    IF trace.writes # <<>> THEN trace.writes[Len(trace.writes)] ELSE StartIp

C14_ResolutionAndPersistFailuresFatal ==
    (~NoResolverFailure \/ trace.writeErrors > 0)
    => /\ pc = "done"
       /\ exitCode = EXIT_ERROR
       /\ trace.updateCalls = <<>>
       /\ trace.notifications = 0
       /\ file.ip = PersistedBeforeFailure

(* ---------------------------------------------------------------------- *)
(* C15: after a run that generated the template, when the operator only   *)
(* fills in the keys the template leaves commented out, the next run      *)
(* passes the check of the schema version                                 *)
(* ---------------------------------------------------------------------- *)
VersionMismatchReported ==
    \E j \in DOMAIN logger.console : logger.console[j].text = "version mismatch"

C15_TemplateUsableAfterSetup ==
    (run.afterSetup /\ run.no > 1) => ~VersionMismatchReported

(* ---------------------------------------------------------------------- *)
(* C16: a run whose file carries a schema version other than the expected *)
(* one ends with a non-zero exit code, without any resolver call, Record  *)
(* Updater call or write to the file                                      *)
(* ---------------------------------------------------------------------- *)
C16_VersionMismatchIsFatal ==
    (StartFile.exists /\ StartFile.version # "1.1")
    => /\ trace.resolverCalls = <<>>
       /\ trace.updateCalls = <<>>
       /\ trace.writes = <<>>
       /\ trace.writeErrors = 0
       /\ trace.notifications = 0
       /\ file = StartFile
       /\ pc \in {"start", "readConfig", "done"}
       /\ pc = "done" => exitCode = EXIT_ERROR

C16_Witness ==
    /\ pc = "done"
    /\ exitCode = EXIT_ERROR
    /\ StartFile.version = "1"
    /\ HasMandatoryKeys(StartFile)
    /\ IsBlank(StartIp)
    /\ VersionMismatchReported
    /\ file = StartFile

(* ---------------------------------------------------------------------- *)
(* C17: the Notifier is invoked at most once per run, only in a run that  *)
(* detected a change and only after the update attempt for the last       *)
(* configured host has finished; never in an unchanged run or in a run    *)
(* that ended with a fatal error                                          *)
(* ---------------------------------------------------------------------- *)
C17_NotificationOrdering ==
    /\ trace.notifications <= 1
    /\ trace.mails <= trace.notifications
    /\ trace.notifications = 1
          => /\ locals.previous_ip_address # locals.current_ip_address
             /\ Len(trace.updateCalls) = NumEntries(StartFile.hosts)
             /\ Len(HostLines) = NumEntries(StartFile.hosts)
             /\ NoTransportFailure
             /\ exitCode # EXIT_ERROR

C17_Witness ==
    /\ pc = "done"
    /\ trace.notifications = 1
    /\ trace.mails = 1
    /\ Len(trace.updateCalls) = 2
    /\ exitCode = EXIT_OK

(* ---------------------------------------------------------------------- *)
(* C18: every Record Updater call is made for a non-empty host name; a    *)
(* hosts value that is blank or has an empty entry between or after       *)
(* commas never leads to a call with an empty host in the URL             *)
(* ---------------------------------------------------------------------- *)
C18_UpdateCallsTargetRealHosts ==
    \A k \in DOMAIN trace.updateCalls :
        /\ trace.updateCalls[k].host # <<>>
        /\ trace.updateCalls[k].url # replaceHost(RECORD_URL, <<>>)

(* ---------------------------------------------------------------------- *)
(* C19: after a changed run in which a host update failed, a later run    *)
(* whose resolver returns the persisted address is classified unchanged   *)
(* and calls the Record Updater for no host; hosts are attempted again    *)
(* only in a run whose resolved address differs from the persisted one    *)
(* ---------------------------------------------------------------------- *)
ClassifiedUnchanged ==
    /\ exitCode = EXIT_OK
    /\ logger.console # <<>>
    /\ logger.console[Len(logger.console)].text = "The IP address didn't change"

C19_FailedHostsNotRetriedWhileStable ==
    run.failedBefore
    => /\ (/\ trace.resolverCalls # <<>>
           /\ \A k \in DOMAIN trace.resolverCalls : trace.resolverCalls[k] = StartIp)
          => /\ trace.updateCalls = <<>>
             /\ pc = "done" => ClassifiedUnchanged
       /\ trace.updateCalls # <<>>
          => \E k \in DOMAIN trace.resolverCalls :
                trace.resolverCalls[k] \in Addrs /\ trace.resolverCalls[k] # StartIp

C19_Witness ==
    /\ run.failedBefore
    /\ run.no = 2
    /\ pc = "done"
    /\ trace.resolverCalls = <<StartIp>>
    /\ ClassifiedUnchanged
    /\ trace.updateCalls = <<>>

====
